---- MODULE Spec2Model ----
(***************************************************************************)
(* A model of kszab0/serve: the HTTP handler of a small file server.       *)
(* GET serves a file or a directory listing, POST (extended variant)       *)
(* streams a zip archive of the request directory or of selected entries.  *)
(*                                                                         *)
(* Strings that the code takes apart (URL paths, ServeRoot, selected       *)
(* names, filesystem paths) are sequences of one-character strings, so     *)
(* that filepath.Clean, Join, Base and Rel are computed, not assumed.      *)
(*                                                                         *)
(* The bytes written to the zip.Writer are recorded in the response in     *)
(* the order they are written: the writer's buffer only delays them, and   *)
(* zw.Close() flushes it before the handler writes anything else.          *)
(***************************************************************************)
EXTENDS Naturals, Sequences, FiniteSets

\* -------------------------------------------------------------- bounds
\* Longest URL path (in characters) a request may carry.
MaxUrlLen == 4
\* Largest number of filesystem entries below the filesystem root.
MaxNodes == 3

\* ------------------------------------------------------- path strings
Sep == "/"
Dot == "."
Names == {"a", "b"}
Chars == {Sep, Dot} \cup Names

DotStr == <<Dot>>
DotDot == <<Dot, Dot>>
SepStr == <<Sep>>

RECURSIVE StrsUpTo(_)
\* every string over Chars of at most n characters
StrsUpTo(n) ==
  IF n = 0 THEN {<< >>}
  ELSE LET S == StrsUpTo(n - 1)
       IN  S \cup {Append(s, c) : s \in {t \in S : Len(t) = n - 1}, c \in Chars}

\* strings.Join(parts, "/")
RECURSIVE JoinSep(_)
JoinSep(parts) ==
  IF parts = << >> THEN << >>
  ELSE IF Len(parts) = 1 THEN parts[1]
  ELSE parts[1] \o SepStr \o JoinSep(Tail(parts))

\* strings.Split(s, "/"): the elements between separators, empty ones kept
RECURSIVE SplitAcc(_, _, _)
SplitAcc(s, cur, acc) ==
  IF s = << >> THEN Append(acc, cur)
  ELSE IF Head(s) = Sep THEN SplitAcc(Tail(s), << >>, Append(acc, cur))
  ELSE SplitAcc(Tail(s), Append(cur, Head(s)), acc)

Split(s) == SplitAcc(s, << >>, << >>)

IsRooted(s) == s # << >> /\ s[1] = Sep

\* The element pass of filepath.Clean: drop empty and "." elements, let ".."
\* remove the element before it, keep a leading ".." only when not rooted.
RECURSIVE CleanElems(_, _, _)
CleanElems(elems, out, rooted) ==
  IF elems = << >> THEN out
  ELSE LET e == Head(elems)
           rest == Tail(elems)
       IN  IF e = << >> \/ e = DotStr THEN CleanElems(rest, out, rooted)
           ELSE IF e = DotDot
                THEN IF out # << >> /\ out[Len(out)] # DotDot
                     THEN CleanElems(rest, SubSeq(out, 1, Len(out) - 1), rooted)
                     ELSE IF rooted THEN CleanElems(rest, out, rooted)
                     ELSE CleanElems(rest, Append(out, e), rooted)
                ELSE CleanElems(rest, Append(out, e), rooted)

\* filepath.Clean
Clean(path) ==
  IF path = << >> THEN DotStr
  ELSE LET out == CleanElems(Split(path), << >>, IsRooted(path))
       IN  IF IsRooted(path) THEN SepStr \o JoinSep(out)
           ELSE IF out = << >> THEN DotStr
           ELSE JoinSep(out)

\* filepath.Join(a, b): empty leading elements are ignored, the rest is
\* joined with separators and cleaned
Join(a, b) ==
  IF a # << >> THEN Clean(a \o SepStr \o b)
  ELSE IF b # << >> THEN Clean(b)
  ELSE << >>

RECURSIVE StripTrailingSep(_)
StripTrailingSep(s) ==
  IF s # << >> /\ s[Len(s)] = Sep THEN StripTrailingSep(SubSeq(s, 1, Len(s) - 1))
  ELSE s

\* filepath.Base
Base(path) ==
  IF path = << >> THEN DotStr
  ELSE LET p == StripTrailingSep(path)
       IN  IF p = << >> THEN SepStr
           ELSE LET parts == Split(p) IN parts[Len(parts)]

\* number of leading elements two element lists share
RECURSIVE CommonLen(_, _)
CommonLen(x, y) ==
  IF x = << >> \/ y = << >> \/ Head(x) # Head(y) THEN 0
  ELSE 1 + CommonLen(Tail(x), Tail(y))

\* elements of a cleaned path below its root or starting point
Elems(p) ==
  LET q == IF IsRooted(p) THEN Tail(p) ELSE p
  IN  IF q = << >> \/ q = DotStr THEN << >> ELSE Split(q)

RelErr == <<"rel", "cannot make relative">>

\* filepath.Rel(basepath, targpath); RelErr when Rel returns an error
Rel(basepath, targpath) ==
  LET base == Clean(basepath)
      targ == Clean(targpath)
      be == Elems(base)
      te == Elems(targ)
      n == CommonLen(be, te)
      bRest == SubSeq(be, n + 1, Len(be))
      tRest == SubSeq(te, n + 1, Len(te))
  IN  IF targ = base THEN DotStr
      ELSE IF IsRooted(base) # IsRooted(targ) THEN RelErr
      ELSE IF bRest # << >> /\ bRest[1] = DotDot THEN RelErr
      ELSE IF bRest # << >>
           THEN JoinSep([i \in 1..Len(bRest) |-> DotDot] \o tRest)
           ELSE JoinSep(tRest)

\* --------------------------------------------------------- filesystem
\* A filesystem is a function from positions (element lists below "/") to
\* nodes; the position << >> is the filesystem root, always a directory.
NameOrder == <<"a", "b">>

\* working directory of the process, a directory of every filesystem the
\* handler runs on: relative paths resolve from here
Cwd == <<<<"a">>>>

DirNode == [kind |-> "dir", data |-> << >>]

FileNode(d) == [kind |-> "file", data |-> d]

\* a file is empty or holds two bytes that depend on its name
NodesAt(p) == {DirNode, FileNode(<< >>), FileNode(<<"d">> \o p[Len(p)])}

EmptyTree == [p \in {<< >>} |-> DirNode]

\* every tree that has one entry more than t
Grow(t) ==
  UNION {UNION {{[x \in DOMAIN t \cup {Append(q, <<c>>)} |->
                    IF x \in DOMAIN t THEN t[x] ELSE nd] :
                  nd \in NodesAt(Append(q, <<c>>))} :
                c \in {n \in Names : Append(q, <<n>>) \notin DOMAIN t}} :
         q \in {x \in DOMAIN t : t[x].kind = "dir"}}

RECURSIVE TreesOfSize(_)
TreesOfSize(n) ==
  IF n = 0 THEN {EmptyTree}
  ELSE UNION {Grow(t) : t \in TreesOfSize(n - 1)}

\* every tree with at most n entries below the root
Trees(n) == UNION {TreesOfSize(k) : k \in 0..n}

\* the position a path names: absolute paths from "/", others from Cwd
AbsPos(p) ==
  LET c == Clean(p)
  IN  IF IsRooted(c) THEN Elems(c)
      ELSE CleanElems(Cwd \o Elems(c), << >>, TRUE)

Exists(f, p) == p # << >> /\ AbsPos(p) \in DOMAIN f

IsDir(f, p) == f[AbsPos(p)].kind = "dir"

Content(f, p) == f[AbsPos(p)].data

\* ioutil.ReadDir: the names in a directory, sorted by name
ReadDir(f, p) ==
  LET pos == AbsPos(p)
      IsKid(c) == Append(pos, <<c>>) \in DOMAIN f
  IN  [i \in 1..Len(SelectSeq(NameOrder, IsKid)) |-> <<SelectSeq(NameOrder, IsKid)[i]>>]

\* ------------------------------------------------------------ response
HeaderNames == {"Cache-Control", "Content-Disposition", "Content-Type",
                "X-Content-Type-Options"}

NoHeaders == [h \in HeaderNames |-> << >>]

\* status 0: no status line written yet; sent: the headers that went out
\* with the status line
NewResponse == [status |-> 0, hdr |-> NoHeaders, sent |-> NoHeaders, body |-> << >>]

Chunk(k, name, data) == [k |-> k, name |-> name, data |-> data]

\* w.Header().Set(k, v)
SetHeader(r, k, v) == [r EXCEPT !.hdr[k] = v]

\* w.WriteHeader(code): only the first call writes the status line
WriteHeader(r, code) ==
  IF r.status = 0 THEN [r EXCEPT !.status = code, !.sent = r.hdr] ELSE r

\* w.Write(chunk): writes the status line 200 first if none was written
Write(r, chunk) ==
  LET c == WriteHeader(r, 200) IN [c EXCEPT !.body = Append(c.body, chunk)]

\* http.Error(w, msg, code)
HttpError(r, msg, code) ==
  LET h == SetHeader(SetHeader(r, "Content-Type", <<"text/plain; charset=utf-8">>),
                     "X-Content-Type-Options", <<"nosniff">>)
  IN  Write(WriteHeader(h, code), Chunk("text", << >>, msg))

StatusNotFound == 404
StatusMethodNotAllowed == 405
StatusInternalServerError == 500

\* -------------------------------------------------------------- handler
VARIABLES
  dir,       \* app.dir, the configured ServeRoot
  extended,  \* TRUE: the variant with POST archives; FALSE: GET only
  fs,        \* the served filesystem
  ioFaults,  \* whether system calls may fail for reasons other than a missing path
  pc,        \* position of the handler
  req,       \* the request being handled
  resp,      \* the response
  open,      \* paths of the file handles currently open
  opens,     \* number of os.Open calls made for this request
  err,       \* the error handleGet / handlePost returned (<< >> for nil)
  stack,     \* the addToArchive calls in progress, innermost last
  todo       \* paths archive() has still to add

vars == <<dir, extended, fs, ioFaults, pc, req, resp, open, opens, err, stack, todo>>

config == <<dir, extended, fs, ioFaults>>

NoReq == [method |-> "", path |-> << >>, files |-> << >>, formOK |-> TRUE]

Methods == {"GET", "POST", "PUT", "PATCH", "DELETE"}

\* variant of ResolveTarget that joins the URL path without cleaning it first
ResolveTargetRaw(root, urlPath) == Join(root, urlPath)

\* the filesystem path a request is about: handleGet's dirPath, handlePost's dir
ResolveTarget(root, urlPath) == Join(root, Clean(urlPath))

Target == ResolveTarget(dir, req.path)

\* variant of dirname without the "root" substitution
dirnameBase(d) == Base(d)

\* dirname
dirname(d) ==
  LET base == Base(d)
  IN  IF base = DotStr \/ base = SepStr THEN <<"r", "o", "o", "t">> ELSE base

ContentDisposition(d) == <<"attachment; filename=\"">> \o dirname(d) \o <<".zip\"">>

\* variant of EntryName that names an entry by its last element only
EntryNameBase(d, p) == Base(p)

\* the name of a zip entry
EntryName(d, p) == Rel(d, p)

\* variant of Supported in which the basic handler also has the POST case
SupportedBoth(m) == m = "GET" \/ m = "POST"

\* the methods the handler's switch has a case for
Supported(m) == m = "GET" \/ (extended /\ m = "POST")

\* variant of SetCacheControl that leaves the header unset
SetNoCacheControl(r) == r

SetCacheControl(r) == SetHeader(r, "Cache-Control", <<"no-store">>)

\* variant of CloseFile that leaves the handle open
CloseFileNever(hs, p) == hs

\* f.Close()
CloseFile(hs, p) == hs \ {p}

\* the deferred f.Close() of every addToArchive call in progress
RECURSIVE CloseAll(_, _)
CloseAll(hs, frames) ==
  IF frames = << >> THEN hs
  ELSE CloseAll(CloseFile(hs, frames[Len(frames)].path),
                SubSeq(frames, 1, Len(frames) - 1))

\* variant of ZipClose that writes nothing
ZipCloseSilent(r) == r

\* zw.Close(): writes the end-of-central-directory record to the response
ZipClose(r) == Write(r, Chunk("zipend", << >>, << >>))

\* serveDir: the listing page, one link per entry
Listing(urlPath, names) ==
  Chunk("html", urlPath, [i \in 1..Len(names) |-> Join(urlPath, names[i])])

Frame(p) == [path |-> p, kids |-> << >>]

TopPath == stack[Len(stack)].path

Pop(s) == SubSeq(s, 1, Len(s) - 1)

\* the error of a system call that failed although the path exists
IOError(op) == <<op, "EIO">>

\* the error of os.Open on a path that does not exist
NotExist == <<"open", "ENOENT">>

NoError == << >>

\* what a read that fails part-way has delivered: a strict prefix of the
\* content (nothing for an empty file)
Prefixes(d) == {SubSeq(d, 1, n) : n \in 0..(IF d = << >> THEN 0 ELSE Len(d) - 1)}

Receive(MethodSet, PathSet, FileSets) ==
  /\ pc = "idle"
  /\ \E m \in MethodSet, p \in PathSet, fl \in FileSets, ok \in BOOLEAN :
       /\ (m # "POST" => (fl = << >> /\ ok))
       /\ (~ok => fl = << >>)
       /\ req' = [method |-> m, path |-> p, files |-> fl, formOK |-> ok]
  /\ resp' = NewResponse
  /\ opens' = 0
  /\ err' = NoError
  /\ pc' = "handler"
  /\ UNCHANGED <<config, open, stack, todo>>

\* the handler closure: set Cache-Control, then switch on the method
Handler ==
  /\ pc = "handler"
  /\ IF ~Supported(req.method)
       THEN /\ resp' = HttpError(SetCacheControl(resp), <<"Method not allowed">>,
                                 StatusMethodNotAllowed)
            /\ pc' = "return"
       ELSE /\ resp' = SetCacheControl(resp)
            /\ pc' = IF req.method = "GET" THEN "get" ELSE "post"
  /\ UNCHANGED <<config, req, open, opens, err, stack, todo>>

\* handleGet returned e: log it and answer 404
GetFail(e, r, hs) ==
  /\ err' = e
  /\ open' = hs
  /\ resp' = HttpError(r, <<"File not found">>, StatusNotFound)
  /\ pc' = "return"

\* handleGet: os.Open(dirPath)
GetOpen ==
  /\ pc = "get"
  /\ opens' = opens + 1
  /\ \/ /\ ~Exists(fs, Target)
        /\ GetFail(NotExist, resp, open)
     \/ /\ ioFaults
        /\ GetFail(IOError("open"), resp, open)
     \/ /\ Exists(fs, Target)
        /\ open' = open \cup {Target}
        /\ pc' = "get_stat"
        /\ UNCHANGED <<resp, err>>
  /\ UNCHANGED <<config, req, stack, todo>>

\* handleGet: f.Stat(), then the branch on info.IsDir()
GetStat ==
  /\ pc = "get_stat"
  /\ \/ /\ ioFaults
        /\ GetFail(IOError("stat"), resp, CloseFile(open, Target))
     \/ /\ pc' = IF IsDir(fs, Target) THEN "get_readdir" ELSE "get_copy"
        /\ UNCHANGED <<resp, err, open>>
  /\ UNCHANGED <<config, req, opens, stack, todo>>

\* handleGet: ioutil.ReadDir and serveDir
GetReadDir ==
  /\ pc = "get_readdir"
  /\ \/ /\ ioFaults
        /\ GetFail(IOError("readdir"), resp, CloseFile(open, Target))
     \/ /\ resp' = Write(resp, Listing(Clean(req.path), ReadDir(fs, Target)))
        /\ open' = CloseFile(open, Target)
        /\ pc' = "return"
        /\ UNCHANGED err
  /\ UNCHANGED <<config, req, opens, stack, todo>>

\* variant of CopyTo that drops the last byte
CopyToShort(r, k, name, data) ==
  IF Len(data) < 2 THEN r
  ELSE Write(r, Chunk(k, name, SubSeq(data, 1, Len(data) - 1)))

\* io.Copy(w, f): nothing is written for no bytes
CopyTo(r, k, name, data) == IF data = << >> THEN r ELSE Write(r, Chunk(k, name, data))

\* handleGet: io.Copy(w, f)
GetCopy ==
  /\ pc = "get_copy"
  /\ \/ /\ ioFaults
        /\ \E d \in Prefixes(Content(fs, Target)) :
             GetFail(IOError("read"), CopyTo(resp, "data", << >>, d),
                     CloseFile(open, Target))
     \/ /\ resp' = CopyTo(resp, "data", << >>, Content(fs, Target))
        /\ open' = CloseFile(open, Target)
        /\ pc' = "return"
        /\ UNCHANGED err
  /\ UNCHANGED <<config, req, opens, stack, todo>>

\* handlePost returned e before archive() created the zip writer
ParseFail(e) ==
  /\ err' = e
  /\ resp' = HttpError(resp, <<"Error: ">> \o e, StatusInternalServerError)
  /\ pc' = "return"

\* handlePost: ParseForm, Content-Disposition, and the start of archive()
Post ==
  /\ pc = "post"
  /\ IF ~req.formOK
       THEN ParseFail(<<"parse", "invalid form">>) /\ UNCHANGED todo
       ELSE /\ resp' = SetHeader(resp, "Content-Disposition", ContentDisposition(Target))
            /\ todo' = IF req.files = << >> THEN <<Target>>
                       ELSE [i \in 1..Len(req.files) |-> Join(Target, req.files[i])]
            /\ pc' = "archive"
            /\ UNCHANGED err
  /\ UNCHANGED <<config, req, open, opens, stack>>

\* archive() returns e: the deferred Close calls run innermost first, then the
\* deferred zw.Close(), and then the handler calls http.Error
ArchiveFail(e, r, hs) ==
  /\ err' = e
  /\ open' = CloseAll(hs, stack)
  /\ stack' = << >>
  /\ resp' = HttpError(ZipClose(r), <<"Error: ">> \o e, StatusInternalServerError)
  /\ pc' = "return"

\* archive(): the loop over the names, and the return of nil
ArchiveNext ==
  /\ pc = "archive"
  /\ IF todo = << >>
       THEN /\ resp' = ZipClose(resp)
            /\ pc' = "return"
            /\ UNCHANGED <<stack, todo>>
       ELSE /\ stack' = <<Frame(Head(todo))>>
            /\ todo' = Tail(todo)
            /\ pc' = "add"
            /\ UNCHANGED resp
  /\ UNCHANGED <<config, req, open, opens, err>>

\* addToArchive: filepath.Rel and os.Open(path)
AddOpen ==
  /\ pc = "add"
  /\ IF EntryName(Target, TopPath) = RelErr
       THEN ArchiveFail(RelErr, resp, open) /\ UNCHANGED opens
       ELSE /\ opens' = opens + 1
            /\ \/ /\ ~Exists(fs, TopPath)
                  /\ ArchiveFail(NotExist, resp, open)
               \/ /\ ioFaults
                  /\ ArchiveFail(IOError("open"), resp, open)
               \/ /\ Exists(fs, TopPath)
                  /\ open' = open \cup {TopPath}
                  /\ pc' = "add_stat"
                  /\ UNCHANGED <<resp, err, stack>>
  /\ UNCHANGED <<config, req, todo>>

\* addToArchive: f.Stat(), then for a directory ioutil.ReadDir
AddStat ==
  /\ pc = "add_stat"
  /\ \/ /\ ioFaults
        /\ ArchiveFail(IOError("stat"), resp, open)
     \/ /\ ioFaults
        /\ IsDir(fs, TopPath)
        /\ ArchiveFail(IOError("readdir"), resp, open)
     \/ /\ IsDir(fs, TopPath)
        /\ stack' = [stack EXCEPT ![Len(stack)].kids = ReadDir(fs, TopPath)]
        /\ pc' = "add_iter"
        /\ UNCHANGED <<resp, err, open>>
     \/ /\ ~IsDir(fs, TopPath)
        /\ pc' = "add_file"
        /\ UNCHANGED <<resp, err, open, stack>>
  /\ UNCHANGED <<config, req, opens, todo>>

\* an addToArchive call returns nil: its deferred f.Close() runs
AddReturn(r) ==
  /\ open' = CloseFile(open, TopPath)
  /\ stack' = Pop(stack)
  /\ resp' = r
  /\ pc' = IF Len(stack) = 1 THEN "archive" ELSE "add_iter"
  /\ UNCHANGED err

\* addToArchive: the loop over a directory's entries
AddIter ==
  /\ pc = "add_iter"
  /\ LET top == stack[Len(stack)]
     IN  IF top.kids = << >>
           THEN AddReturn(resp)
           ELSE /\ stack' = Append([stack EXCEPT ![Len(stack)].kids = Tail(top.kids)],
                                   Frame(Join(top.path, Head(top.kids))))
                /\ pc' = "add"
                /\ UNCHANGED <<resp, err, open>>
  /\ UNCHANGED <<config, req, opens, todo>>

\* addToArchive: zw.Create(relPath) and io.Copy(zf, f)
AddFile ==
  /\ pc = "add_file"
  /\ LET name == EntryName(Target, TopPath)
     IN  \/ /\ ioFaults
            /\ \E d \in Prefixes(Content(fs, TopPath)) :
                 ArchiveFail(IOError("read"), Write(resp, Chunk("zipfile", name, d)), open)
         \/ AddReturn(Write(resp, Chunk("zipfile", name, Content(fs, TopPath))))
  /\ UNCHANGED <<config, req, opens, todo>>

\* the handler returns; net/http writes the status line 200 if none was written
Return ==
  /\ pc = "return"
  /\ resp' = WriteHeader(resp, 200)
  /\ pc' = "done"
  /\ UNCHANGED <<config, req, open, opens, err, stack, todo>>

\* the server waits for the next request; handles still open stay open
Await ==
  /\ pc = "done"
  /\ pc' = "idle"
  /\ req' = NoReq
  /\ resp' = NewResponse
  /\ opens' = 0
  /\ err' = NoError
  /\ stack' = << >>
  /\ todo' = << >>
  /\ UNCHANGED <<config, open>>

Step ==
  \/ Handler
  \/ GetOpen \/ GetStat \/ GetReadDir \/ GetCopy
  \/ Post \/ ArchiveNext \/ AddOpen \/ AddStat \/ AddIter \/ AddFile
  \/ Return \/ Await

\* --------------------------------------------------------------- inputs
Roots == {<< >>, <<".">>, <<"/">>, <<"/", "a">>, <<"a">>, <<".", ".">>,
          <<"/", "a", "/">>, <<"/", "a", "/", "b">>}

UrlPaths == StrsUpTo(MaxUrlLen)

\* `files` values of a form: none, names, and values that are not names
SelLists == {<< >>, <<<<"a">>>>, <<<<"b">>>>, <<<<"a">>, <<"b">>>>,
             <<<<"b">>, <<"a">>>>, <<<<".", ".">>>>, <<<<"a", "/", "b">>>>}

\* URL paths that name entries, miss them, or carry "." and ".." elements
SamplePaths == {<<"/">>, <<"/", "a">>, <<"/", "a", "/", "b">>, <<"/", "b", "/">>,
                <<"/", ".", ".", "/", "a">>, <<".">>, <<".", ".">>}

SampleTree ==
  [p \in {<< >>, <<<<"a">>>>, <<<<"a">>, <<"b">>>>, <<<<"b">>>>} |->
     IF p = <<<<"a">>, <<"b">>>> THEN FileNode(<<"d", "b">>)
     ELSE IF p = <<<<"b">>>> THEN FileNode(<< >>) ELSE DirNode]

InitRun ==
  /\ pc = "idle"
  /\ req = NoReq
  /\ resp = NewResponse
  /\ open = {}
  /\ opens = 0
  /\ err = NoError
  /\ stack = << >>
  /\ todo = << >>

Init ==
  /\ dir \in {<<".">>, <<"/">>}
  /\ extended \in BOOLEAN
  /\ fs \in {t \in Trees(MaxNodes) : Cwd \in DOMAIN t /\ t[Cwd].kind = "dir"}
  /\ ioFaults \in BOOLEAN
  /\ InitRun

Next == Receive(Methods, SamplePaths, SelLists) \/ Step

Spec == Init /\ [][Next]_vars

\* every ServeRoot against every URL path, on one filesystem
InitPaths ==
  /\ dir \in Roots
  /\ extended \in BOOLEAN
  /\ fs = SampleTree
  /\ ioFaults \in BOOLEAN
  /\ InitRun

NextPaths == Receive(Methods, UrlPaths, {<< >>}) \/ Step

SpecPaths == InitPaths /\ [][NextPaths]_vars

\* ---------------------------------------------------------------- claims
IsPrefix(a, b) == Len(a) <= Len(b) /\ SubSeq(b, 1, Len(a)) = a

Done == pc = "done"

PostDone == Done /\ extended /\ req.method = "POST"

ZipEnd == Chunk("zipend", << >>, << >>)

IsZipFile(c) == c.k = "zipfile"

ZipFiles == SelectSeq(resp.body, IsZipFile)

ErrorText(e) == Chunk("text", << >>, <<"Error: ">> \o e)

NotFoundText == Chunk("text", << >>, <<"File not found">>)

InBody(c) == \E i \in 1..Len(resp.body) : resp.body[i] = c

\* C1: a POST that fails in form parsing or in archiving is answered with
\* status 500 and a body that includes the error's text.
C1_PostErrorIs500 ==
  (PostDone /\ err # NoError) => (resp.status = 500 /\ InBody(ErrorText(err)))

\* what the handler does answer to a failed POST: 500 for a form that does not
\* parse, and for a failed archive 200 with the zip end record before the
\* error text
FailedPostObserved ==
  (PostDone /\ err # NoError) =>
     /\ InBody(ErrorText(err))
     /\ (req.formOK => (resp.status = 200 /\ InBody(ZipEnd)))
     /\ (~req.formOK => (resp.status = 500 /\ resp.body = <<ErrorText(err)>>))

\* the selection is empty or lists distinct names of entries of the base directory
ValidSelection ==
  /\ \A i \in 1..Len(req.files) :
       /\ \E n \in Names : req.files[i] = <<n>>
       /\ Append(AbsPos(Target), req.files[i]) \in DOMAIN fs
  /\ \A i, j \in 1..Len(req.files) : req.files[i] = req.files[j] => i = j

\* positions of the selected entries (the base directory for an empty selection)
SelectedPos ==
  IF req.files = << >> THEN {AbsPos(Target)}
  ELSE {Append(AbsPos(Target), req.files[i]) : i \in 1..Len(req.files)}

\* the regular files at or below the selected entries, as (name, content) with
\* the name relative to the base directory
ExpectedEntries ==
  LET bp == AbsPos(Target)
  IN  {<<JoinSep(SubSeq(q, Len(bp) + 1, Len(q))), fs[q].data>> :
         q \in {x \in DOMAIN fs : /\ fs[x].kind = "file"
                                  /\ \E r \in SelectedPos : IsPrefix(r, x)}}

C2_Case ==
  /\ PostDone /\ req.formOK
  /\ Exists(fs, Target) /\ IsDir(fs, Target)
  /\ ValidSelection

\* C2: for a tree of files and directories under the base directory and a
\* selection that is empty or lists distinct names of its entries, archive()
\* succeeds (when no system call fails) and the zip holds exactly one entry per
\* regular file at or below the selected entries, named by the file's path
\* relative to the base directory and holding its content, then the end record.
C2_ArchiveRoundTrip ==
  C2_Case =>
     /\ (~ioFaults => err = NoError)
     /\ (err = NoError =>
           /\ resp.body = Append(ZipFiles, ZipEnd)
           /\ Len(ZipFiles) = Cardinality(ExpectedEntries)
           /\ {<<ZipFiles[i].name, ZipFiles[i].data>> : i \in 1..Len(ZipFiles)}
                = ExpectedEntries)

\* a selected directory was archived with a file below it
C2_Witness ==
  /\ C2_Case /\ err = NoError /\ req.files # << >>
  /\ \E i \in 1..Len(ZipFiles) : Len(Split(ZipFiles[i].name)) = 2
  /\ AbsPos(Target) # << >>

\* C3: with a non-empty selection every file written to the zip lies inside
\* the request directory, at or below an entry of it whose name is a
\* submitted value, under a relative name that does not leave the directory.
C3_OnlyNamedEntries ==
  (PostDone /\ req.files # << >>) =>
     \A i \in 1..Len(ZipFiles) :
        LET e == Split(ZipFiles[i].name)
            bp == AbsPos(Target)
            fp == AbsPos(Join(Target, ZipFiles[i].name))
        IN  /\ e[1] # DotDot
            /\ \E j \in 1..Len(req.files) : req.files[j] = e[1]
            /\ IsPrefix(bp, fp) /\ fp # bp

Header(name) == resp.sent[name]

RootZip == <<"attachment; filename=\"", "r", "o", "o", "t", ".zip\"">>

NamedZip(n) == <<"attachment; filename=\"">> \o n \o <<".zip\"">>

\* a POST whose form parsed and that has reached its end
C4_Case == PostDone /\ req.formOK

\* C4: for every ServeRoot a POST to /<name> is named <name>.zip and a POST
\* to / or . is named root.zip.
C4_RootZipForEveryRoot ==
  C4_Case =>
     /\ \A n \in Names : req.path = <<Sep, n>> => Header("Content-Disposition") = NamedZip(<<n>>)
     /\ req.path \in {SepStr, DotStr} => Header("Content-Disposition") = RootZip

\* the last element of the cleaned ServeRoot, none for ".", "/" and ""
RootElems == Elems(Clean(dir))

\* C4 as amended: a POST to /<name> is named <name>.zip for every ServeRoot;
\* a POST to / or . is named root.zip when the cleaned ServeRoot is "." or "/"
\* (or the ServeRoot is empty), and after the last element of the ServeRoot
\* otherwise.
C4_ArchiveNaming ==
  C4_Case =>
     /\ \A n \in Names : req.path = <<Sep, n>> => Header("Content-Disposition") = NamedZip(<<n>>)
     /\ req.path \in {SepStr, DotStr} =>
          Header("Content-Disposition") =
            IF RootElems = << >> THEN RootZip ELSE NamedZip(RootElems[Len(RootElems)])

\* a POST to / under the default ServeRoot "."
C4_Witness ==
  /\ C4_Case /\ req.path = SepStr /\ dir = DotStr
  /\ Header("Content-Disposition") = RootZip

GetDone == Done /\ req.method = "GET"

IsData(c) == c.k = "data"

\* the errors of a failed open, stat or directory read
OpenErrors == {NotExist, IOError("open"), IOError("stat"), IOError("readdir")}

\* C5: a GET of an existing regular file (that can be opened and read) is
\* answered 200 with the file's content as the body; a GET of a path that
\* does not exist or whose open, stat or directory read fails is answered 404
\* with the body "File not found"; no GET ends with another status.
C5_GetDispatch ==
  GetDone =>
     /\ resp.status \in {200, 404}
     /\ (Exists(fs, Target) /\ ~IsDir(fs, Target) /\ ~ioFaults) => err = NoError
     /\ (Exists(fs, Target) /\ ~IsDir(fs, Target) /\ err = NoError) =>
          /\ resp.status = 200
          /\ resp.body = SelectSeq(resp.body, IsData)
          /\ Content(fs, Target) =
               (IF resp.body = << >> THEN << >> ELSE resp.body[1].data)
          /\ Len(resp.body) <= 1
     /\ ~Exists(fs, Target) => err \in OpenErrors
     /\ err \in OpenErrors => (resp.status = 404 /\ resp.body = <<NotFoundText>>)

\* a file with content was served through a path with a ".." element
C5_Witness ==
  /\ GetDone /\ err = NoError /\ Exists(fs, Target) /\ ~IsDir(fs, Target)
  /\ Content(fs, Target) # << >> /\ resp.status = 200
  /\ \E i \in 1..Len(Split(req.path)) : Split(req.path)[i] = DotDot

\* C6: every response carries Cache-Control: no-store, and the header is set
\* before the status line or any byte of the body is written.
C6_CacheControl ==
  /\ (resp.status # 0 \/ resp.body # << >>) => Header("Cache-Control") = <<"no-store">>
  /\ Done => resp.status # 0

\* an archive that failed after an entry had been written
C6_Witness ==
  /\ PostDone /\ err # NoError /\ Len(ZipFiles) > 0
  /\ Header("Cache-Control") = <<"no-store">>

\* the handler has no case for the request's method
Unsupported == req.method # "" /\ req.method # "GET" /\ ~(extended /\ req.method = "POST")

\* C7: a request with a method the handler does not support is answered 405
\* whatever its path, and opens no file.
C7_MethodNotAllowed ==
  Unsupported =>
     /\ opens = 0 /\ open = {}
     /\ pc \notin {"get", "post", "archive"}
     /\ Done => (resp.status = 405 /\ resp.body = <<Chunk("text", << >>, <<"Method not allowed">>)>>)

\* a POST to the basic variant, for a path that exists
C7_Witness ==
  /\ Done /\ Unsupported /\ req.method = "POST" /\ ~extended /\ Exists(fs, Target)
  /\ resp.status = 405

\* C8: every file handle opened for a request is closed when the handler
\* returns, on every exit path, and none is open when the next request arrives.
C8_HandlesClosed == pc \in {"return", "done", "idle", "handler"} => open = {}

\* an archive walk that failed two or more directories deep
C8_Witness ==
  /\ PostDone /\ err \in {IOError("open"), IOError("stat"), IOError("read")}
  /\ opens >= 3 /\ open = {}

\* C9: a POST whose form parses is answered 200 for any path, also one that
\* does not exist under ServeRoot.
C9_PostIs200 == (PostDone /\ req.formOK) => resp.status = 200

\* a POST for a path that does not exist
C9_Witness == PostDone /\ req.formOK /\ ~Exists(fs, Target) /\ resp.status = 200

\* the directory the URL path / resolves to: the cleaned ServeRoot, and the
\* filesystem root for the empty ServeRoot, which Join leaves out
ServedRoot == AbsPos(Join(dir, SepStr))

\* C10: for a URL path that begins with "/" every path the handler opens, and
\* the base directory of an archive, is ServeRoot or lies below it.
C10_Confined ==
  IsRooted(req.path) =>
     /\ \A h \in open : IsPrefix(ServedRoot, AbsPos(h))
     /\ \A i \in 1..Len(todo) : IsPrefix(ServedRoot, AbsPos(todo[i]))
     /\ \A i \in 1..Len(stack) : IsPrefix(ServedRoot, AbsPos(stack[i].path))

\* a file is open for a URL path with a ".." element under the ServeRoot /a
C10_Witness ==
  /\ IsRooted(req.path) /\ \E i \in 1..Len(Split(req.path)) : Split(req.path)[i] = DotDot
  /\ dir = <<Sep, "a">> /\ open # {}
====
